---------------------------- MODULE Spec2Model ----------------------------
(***************************************************************************)
(* Model of the Doodle Jump frame loop of src/DoodleJumpGame/main.cpp:     *)
(* Game::Game, Game::run and the Player / Platform operations it calls.    *)
(*                                                                         *)
(* Arithmetic.  The program computes positions and the vertical velocity   *)
(* in float; every value it adds is a multiple of 0.2 (gravity 0.2f, the   *)
(* jump velocity -8.0f, the horizontal step 5.0f, integer rand() results). *)
(* The model keeps every coordinate and the velocity as an integer number  *)
(* of fifths of a pixel (Scale units per pixel), so 0.2 is 1, 300 is 1500  *)
(* and 700 is 3500.  Rounding error of float accumulation is not modelled. *)
(*                                                                         *)
(* Player::dx is assigned 0 and never read; it is left out.                *)
(***************************************************************************)
EXTENDS Integers, Sequences, FiniteSets, TLC

(***************************************************************************)
(* Program constants (pixels, or fifths of a pixel where noted).           *)
(***************************************************************************)
Scale == 5              \* model units per pixel: 0.2f is one unit
Gravity == 1            \* dy += 0.2f, in units
JumpSpeed == 8          \* dy = -8.0f
StepX == 5              \* position.x -= 5.0f / += 5.0f
SpawnX == 200           \* Player() and Player::reset
SpawnY == 200
WinW == 500             \* VideoMode(500, 700), rand() % 500
WinH == 700             \* y > 700, rand() % 700
ScrollLine == 300       \* y < 300
NumPlatforms == 10      \* for (int i = 0; i < 10; i++)
HitRight == 50          \* plPos.x + 50 > pPos.x
HitLeft == 20           \* plPos.x + 20 < pPos.x + 68
PlatW == 68
Feet == 70              \* plPos.y + 70
PlatH == 14             \* plPos.y + 70 < pPos.y + 14

(***************************************************************************)
(* Bounds of the exploration.                                              *)
(***************************************************************************)
MaxDrift == 1           \* the player is kept within MaxDrift steps of SpawnX
MaxEvents == 1          \* window events delivered in one frame

(***************************************************************************)
(* rand() results offered to the program.  rand() returns any value in     *)
(* 0..RAND_MAX; the program only uses rand() % 500 and rand() % 700.       *)
(***************************************************************************)
RawPair(a, b) == [rx |-> a, ry |-> b]

\* One platform under the player, several low ones that leave the window on
\* the first scroll.
StreamA ==
    << RawPair(200, 300), RawPair(0, 10),   RawPair(499, 699), RawPair(940, 1350),
       RawPair(20, 100),  RawPair(433, 150), RawPair(60, 1400), RawPair(80, 500),
       RawPair(100, 550), RawPair(120, 40) >>

\* Two platforms under the player at the same height.
StreamB ==
    << RawPair(180, 300), RawPair(220, 300), RawPair(0, 0),    RawPair(10, 50),
       RawPair(20, 100),  RawPair(30, 120),  RawPair(40, 200), RawPair(450, 500),
       RawPair(460, 610), RawPair(470, 20) >>

\* The edge of the horizontal test: the platform at 249 is hit from x = 200
\* and missed from x = 195.
StreamC ==
    << RawPair(249, 300), RawPair(0, 0),    RawPair(10, 30),  RawPair(20, 60),
       RawPair(30, 90),   RawPair(40, 120), RawPair(50, 150), RawPair(60, 180),
       RawPair(70, 210),  RawPair(80, 690) >>

\* A second platform 15 pixels above the one the player lands on, missed from
\* x = 195 on the way down: the player can pass through its hit window on the
\* way up.
StreamD ==
    << RawPair(200, 300), RawPair(249, 285), RawPair(0, 0),   RawPair(10, 30),
       RawPair(20, 60),   RawPair(30, 90),   RawPair(40, 120), RawPair(50, 150),
       RawPair(60, 180),  RawPair(70, 210) >>

ResetStreams == {StreamA, StreamB, StreamC, StreamD}

RecycleRand == {180, 999}

VARIABLES
    open,        \* window.isOpen()
    pc,          \* position of run() in its loop body
    playerX,     \* player.position.x, units
    playerY,     \* player.position.y, units
    dy,          \* player.dy, units per frame
    platforms,   \* std::vector<Platform>: sequence of [x, y], units
    score,
    gameOver,
    polled,      \* events taken from the queue in this frame
    last,        \* history: the step run() took last
    dy0,         \* history: dy when the Playing part of this frame began
    jumps,       \* history: calls of player.jump() in the last handleCollisions
    shift,       \* history: the offset the last scroll step applied, 0 if none
    keyR         \* Keyboard::isKeyPressed(Keyboard::R) during this frame's event loop

vars == << open, pc, playerX, playerY, dy, platforms, score, gameOver,
           polled, last, dy0, jumps, shift, keyR >>

\* GameObject(x, y) / setPosition(x, y) of a platform, from pixel arguments
Platform(x, y) == [x |-> x * Scale, y |-> y * Scale]

\* The vector resetGame builds: emplace_back(rand() % 500, rand() % 700), ten times
NewPlatforms(s) ==
    [i \in 1..NumPlatforms |-> Platform(s[i].rx % WinW, s[i].ry % WinH)]

\* Variant of Move: position.y += d
MoveWithDelta(p, d) == [p EXCEPT !.y = p.y + d]

\* Platform::move(d): position.y -= d
Move(p, d) == [p EXCEPT !.y = p.y - d]

\* Player::jump(): dy = -8.0f
JumpVelocity == -(JumpSpeed * Scale)

\* Variant of FellOut: the bound of the 400 x 533 window the comments say the
\* program was adjusted from
FellOutOldHeight(y) == y > 533 * Scale

\* Variant of Jump: the impulse added to the current velocity
JumpAdditive(v) == v + JumpVelocity

\* Variant of Jump: the impulse of -10 of the 400 x 533 game
JumpOldImpulse(v) == -(10 * Scale)

\* Player::jump() applied to a player with velocity v: the velocity after it
Jump(v) == JumpVelocity

\* run(), line 251: player.getPosition().y > 700
FellOut(y) == y > WinH * Scale

\* Variant of AboveScrollLine: the scroll line of 200 of the 400 x 533 game
AboveOldScrollLine(y) == y < 200 * Scale

\* run(), line 255: player.getPosition().y < 300
AboveScrollLine(y) == y < ScrollLine * Scale

\* Variant of ScrollPlatforms: move(offset) in place of move(-offset)
ScrollPlatformsUp(plats, y) ==
    LET offset == ScrollLine * Scale - y
    IN  [i \in DOMAIN plats |-> Move(plats[i], offset)]

\* run(), lines 256-260: the platforms after the scroll step
ScrollPlatforms(plats, y) ==
    LET offset == ScrollLine * Scale - y
    IN  [i \in DOMAIN plats |-> Move(plats[i], -offset)]

\* updatePlatforms, line 156: platform.getPosition().y > 700
OffScreen(p) == p.y > WinH * Scale

\* Variant of Scored: the recycle does not count
NotScored(sc) == sc

\* updatePlatforms, line 158: score++
Scored(sc) == sc + 1

\* Variant of Recycled: rand() used without the modulo
RecycledNoModulo(r) == Platform(r, 0)

\* updatePlatforms, line 157: platform.setPosition(rand() % 500, 0)
Recycled(r) == Platform(r % WinW, 0)

\* updatePlatforms, lines 152-160: the loop from platform i on; rs[i] is the
\* rand() result platform i receives if it is recycled.  Returns the vector
\* and the score after the loop.
RECURSIVE UpdateLoop(_, _, _, _, _)
UpdateLoop(i, plats, sc, v, rs) ==
    IF i > Len(plats)
    THEN [platforms |-> plats, score |-> sc]
    ELSE LET moved == Move(plats[i], v)
         IN  IF OffScreen(moved)
             THEN UpdateLoop(i + 1, [plats EXCEPT ![i] = Recycled(rs[i])], Scored(sc), v, rs)
             ELSE UpdateLoop(i + 1, [plats EXCEPT ![i] = moved], sc, v, rs)

\* Variant of Hit: the platform's width used as its height in the vertical test
HitTallBox(p, x, y, v) ==
    /\ x + HitRight * Scale > p.x
    /\ x + HitLeft * Scale < p.x + PlatW * Scale
    /\ y + Feet * Scale > p.y
    /\ y + Feet * Scale < p.y + PlatW * Scale
    /\ v > 0

\* Variant of Hit: the velocity test left out
HitAnyDirection(p, x, y, v) ==
    /\ x + HitRight * Scale > p.x
    /\ x + HitLeft * Scale < p.x + PlatW * Scale
    /\ y + Feet * Scale > p.y
    /\ y + Feet * Scale < p.y + PlatH * Scale

\* handleCollisions, lines 142-144: the test of one platform p against the
\* player at (x, y) with vertical velocity v
Hit(p, x, y, v) ==
    /\ x + HitRight * Scale > p.x
    /\ x + HitLeft * Scale < p.x + PlatW * Scale
    /\ y + Feet * Scale > p.y
    /\ y + Feet * Scale < p.y + PlatH * Scale
    /\ v > 0

\* handleCollisions, lines 138-148: the loop from platform i on, with the
\* player's velocity v and n calls of jump() (and jumpSound.play()) so far
RECURSIVE CollideLoop(_, _, _, _, _, _)
CollideLoop(i, plats, x, y, v, n) ==
    IF i > Len(plats)
    THEN [dy |-> v, jumps |-> n]
    ELSE IF Hit(plats[i], x, y, v)
         THEN CollideLoop(i + 1, plats, x, y, Jump(v), n + 1)
         ELSE CollideLoop(i + 1, plats, x, y, v, n)

TypeOK ==
    /\ open \in BOOLEAN
    /\ pc \in {"loop", "poll", "input", "update", "fall", "scroll",
               "platforms", "collide", "draw", "done"}
    /\ playerX \in Int /\ playerY \in Int /\ dy \in Int
    /\ platforms \in Seq([x : Int, y : Int])
    /\ score \in Nat
    /\ gameOver \in BOOLEAN
    /\ polled \in 0..MaxEvents
    /\ keyR \in BOOLEAN

(***************************************************************************)
(* Game::Game.  score(0), gameOver(false), Player() at (200, 200) with     *)
(* dy = 0 and an empty vector; resetGame() is reached only when the font   *)
(* and the jump sound both load (the two early returns, lines 198-207).    *)
(***************************************************************************)
Init ==
    /\ open = TRUE
    /\ pc = "loop"
    /\ playerX = SpawnX * Scale
    /\ playerY = SpawnY * Scale
    /\ dy = 0
    /\ score = 0
    /\ gameOver = FALSE
    /\ \E loaded \in BOOLEAN :
          IF loaded
          THEN \E s \in ResetStreams : platforms = NewPlatforms(s)
          ELSE platforms = << >>
    /\ polled = 0
    /\ last = "construct"
    /\ dy0 = 0
    /\ jumps = 0
    /\ shift = 0
    /\ keyR = FALSE

\* while (window.isOpen()).  The state of the R key for the frame that begins
\* is the environment's choice; it is read only in the event loop and is kept
\* FALSE outside it.
LoopTest ==
    /\ pc = "loop"
    /\ pc' = IF open THEN "poll" ELSE "done"
    /\ keyR' \in (IF open THEN BOOLEAN ELSE {FALSE})
    /\ polled' = 0
    /\ last' = "loop"
    /\ UNCHANGED << open, playerX, playerY, dy, platforms, score, gameOver, dy0, jumps, shift >>

\* Variant of ResetGame: score = 0 left out
ResetGameKeepsScore(s) ==
    /\ playerX' = SpawnX * Scale
    /\ playerY' = SpawnY * Scale
    /\ dy' = 0
    /\ score' = score
    /\ gameOver' = FALSE
    /\ platforms' = NewPlatforms(s)

\* resetGame(), called from the event loop with the rand() results s
ResetGame(s) ==
    /\ playerX' = SpawnX * Scale
    /\ playerY' = SpawnY * Scale
    /\ dy' = 0
    /\ score' = 0
    /\ gameOver' = FALSE
    /\ platforms' = NewPlatforms(s)

\* One iteration of while (window.pollEvent(e)), lines 233-245: event e is
\* taken from the queue while Escape is held or not and R is as keyR says.
PollEvent ==
    /\ pc = "poll"
    /\ polled < MaxEvents
    /\ \E e \in {"Closed", "Other"}, keyEsc \in BOOLEAN :
          /\ open' = IF e = "Closed" \/ (gameOver /\ ~keyR /\ keyEsc) THEN FALSE ELSE open
          /\ IF gameOver /\ keyR
             THEN /\ \E s \in ResetStreams : ResetGame(s)
                  /\ last' = "reset"
             ELSE /\ UNCHANGED << playerX, playerY, dy, platforms, score, gameOver >>
                  /\ last' = "event"
    /\ polled' = polled + 1
    /\ UNCHANGED << pc, dy0, jumps, shift, keyR >>

\* pollEvent returns false: the queue is empty; then if (!gameOver), line 247
PollEmpty ==
    /\ pc = "poll"
    /\ pc' = IF gameOver THEN "draw" ELSE "input"
    /\ dy0' = dy
    /\ keyR' = FALSE
    /\ last' = "polled"
    /\ UNCHANGED << open, playerX, playerY, dy, platforms, score, gameOver, polled, jumps, shift >>

\* handleInput(), lines 128-135, with the Left and Right keys held or not
HandleInput ==
    /\ pc = "input"
    /\ \E left \in BOOLEAN, right \in BOOLEAN :
          LET x1 == IF left THEN playerX - StepX * Scale ELSE playerX
              x2 == IF right THEN x1 + StepX * Scale ELSE x1
          IN  /\ x2 >= (SpawnX - MaxDrift * StepX) * Scale
              /\ x2 <= (SpawnX + MaxDrift * StepX) * Scale
              /\ playerX' = x2
    /\ pc' = "update"
    /\ last' = "input"
    /\ UNCHANGED << open, playerY, dy, platforms, score, gameOver, polled, dy0, jumps, shift, keyR >>

\* Variant of PlayerUpdate: an empty update(), as Platform::update() is
PlayerUpdateEmpty ==
    /\ pc = "update"
    /\ pc' = "fall"
    /\ last' = "update"
    /\ UNCHANGED << open, playerX, playerY, dy, platforms, score, gameOver, polled, dy0, jumps, shift, keyR >>

\* Variant of PlayerUpdate: the position advanced before the velocity
PlayerUpdateMoveFirst ==
    /\ pc = "update"
    /\ playerY' = playerY + dy
    /\ dy' = dy + Gravity
    /\ pc' = "fall"
    /\ last' = "update"
    /\ UNCHANGED << open, playerX, platforms, score, gameOver, polled, dy0, jumps, shift, keyR >>

\* player.update() = Player::applyGravity(), lines 63-66
PlayerUpdate ==
    /\ pc = "update"
    /\ dy' = dy + Gravity
    /\ playerY' = playerY + dy'
    /\ pc' = "fall"
    /\ last' = "update"
    /\ UNCHANGED << open, playerX, platforms, score, gameOver, polled, dy0, jumps, shift, keyR >>

\* run(), lines 251-253
FallCheck ==
    /\ pc = "fall"
    /\ gameOver' = IF FellOut(playerY) THEN TRUE ELSE gameOver
    /\ pc' = "scroll"
    /\ last' = "fall"
    /\ UNCHANGED << open, playerX, playerY, dy, platforms, score, polled, dy0, jumps, shift, keyR >>

\* run(), lines 255-261
ScrollStep ==
    /\ pc = "scroll"
    /\ IF AboveScrollLine(playerY)
       THEN /\ playerY' = ScrollLine * Scale
            /\ platforms' = ScrollPlatforms(platforms, playerY)
            /\ shift' = ScrollLine * Scale - playerY
       ELSE /\ UNCHANGED << playerY, platforms >>
            /\ shift' = 0
    /\ pc' = "platforms"
    /\ last' = "scroll"
    /\ UNCHANGED << open, playerX, dy, score, gameOver, polled, dy0, jumps, keyR >>

\* updatePlatforms(), lines 151-163; rand() is called once for each platform
\* that is off screen after its move
UpdatePlatforms ==
    /\ pc = "platforms"
    /\ LET need == {i \in DOMAIN platforms : OffScreen(Move(platforms[i], dy))}
       IN  \E rs \in [need -> RecycleRand] :
              LET r == UpdateLoop(1, platforms, score, dy, rs)
              IN  /\ platforms' = r.platforms
                  /\ score' = r.score
    /\ pc' = "collide"
    /\ last' = "platforms"
    /\ UNCHANGED << open, playerX, playerY, dy, gameOver, polled, dy0, jumps, shift, keyR >>

\* handleCollisions(), lines 137-149
HandleCollisions ==
    /\ pc = "collide"
    /\ LET r == CollideLoop(1, platforms, playerX, playerY, dy, 0)
       IN  /\ dy' = r.dy
           /\ jumps' = r.jumps
    /\ pc' = "draw"
    /\ last' = "collide"
    /\ UNCHANGED << open, playerX, playerY, platforms, score, gameOver, polled, dy0, shift, keyR >>

\* draw(), lines 165-182: presents the state, changes none of it
Draw ==
    /\ pc = "draw"
    /\ pc' = "loop"
    /\ last' = "draw"
    /\ UNCHANGED << open, playerX, playerY, dy, platforms, score, gameOver, polled, dy0, jumps, shift, keyR >>

Next ==
    \/ LoopTest
    \/ PollEvent
    \/ PollEmpty
    \/ HandleInput
    \/ PlayerUpdate
    \/ FallCheck
    \/ ScrollStep
    \/ UpdatePlatforms
    \/ HandleCollisions
    \/ Draw

Spec == Init /\ [][Next]_vars

\* run() in frames whose event queue is empty: the window is not closed and no
\* key is read in the event loop, so the frame loop keeps running.
QuietNext ==
    \/ LoopTest
    \/ PollEmpty
    \/ HandleInput
    \/ PlayerUpdate
    \/ FallCheck
    \/ ScrollStep
    \/ UpdatePlatforms
    \/ HandleCollisions
    \/ Draw

\* The steps of QuietNext other than updatePlatforms
OtherSteps ==
    \/ LoopTest
    \/ PollEmpty
    \/ HandleInput
    \/ PlayerUpdate
    \/ FallCheck
    \/ ScrollStep
    \/ HandleCollisions
    \/ Draw

\* run() is a sequential loop on one thread: while a step of it is possible,
\* one is taken.  updatePlatforms is possible exactly when pc = "platforms" and
\* is the only step that leaves that position, so weak fairness of it is the
\* last conjunct.
FairSpec ==
    /\ Init /\ [][QuietNext]_vars
    /\ WF_vars(OtherSteps)
    /\ []<>(pc # "platforms")

(***************************************************************************)
(* Properties.  Lengths are in model units: Px(n) is n pixels, and one     *)
(* unit of velocity is 0.2 pixels per frame.                               *)
(***************************************************************************)
Px(n) == n * Scale

\* The geometric part of the collision test, as the claims state it
Overlaps(p) ==
    /\ playerX + Px(50) > p.x
    /\ playerX + Px(20) < p.x + Px(68)
    /\ playerY + Px(70) > p.y
    /\ playerY + Px(70) < p.y + Px(14)

\* The platforms that pass the geometric test in the current state
Overlapping == {i \in DOMAIN platforms : Overlaps(platforms[i])}

\* The platforms that are below the window once moved by the player's velocity
Leaving == {i \in DOMAIN platforms : platforms[i].y - dy > Px(700)}

\* C1: the GameOver flag goes from false to true exactly in the fall-out
\* check of a Playing frame whose player y, after that frame's input and
\* gravity update, is strictly greater than 700; it goes from true to false
\* only through resetGame; no other step changes it.
C1_FlagTransitions ==
    [][ /\ (~gameOver /\ gameOver') => (pc = "fall" /\ playerY > Px(700))
        /\ (pc = "fall" /\ playerY > Px(700)) => gameOver'
        /\ (pc = "fall" /\ playerY <= Px(700)) => (gameOver' = gameOver)
        /\ (pc = "fall") => (last = "update" /\ ~gameOver)
        /\ (gameOver /\ ~gameOver') => (pc = "poll" /\ last' = "reset")
      ]_vars

\* C1 witness: the fall-out check has just set the flag
C1_Witness == last = "fall" /\ gameOver /\ playerY > Px(700)

\* C2 (as claimed): while the flag is true and stays true, player position and
\* velocity, every platform and the score are unchanged, the rest of the frame
\* that set the flag included.
C2_NoPhysicsWhileGameOver ==
    [][ (gameOver /\ gameOver') => UNCHANGED << playerX, playerY, dy, platforms, score >> ]_vars

\* C3 (as claimed): the scroll step lowers every platform's y by the offset.
C3_ScrollDecreasesY ==
    [][ (pc = "scroll" /\ playerY < Px(300)) =>
            \A i \in DOMAIN platforms :
                platforms'[i].y = platforms[i].y - (Px(300) - playerY) ]_vars

\* C3 (amended): in a Playing frame whose player y is below 300 after the
\* physics update, the scroll step sets player y to 300, leaves x, and raises
\* every platform's y by exactly offset = 300 - y (the platforms move down the
\* window); with y >= 300 the scroll step changes nothing.
C3_ScrollIncreasesY ==
    [][ (pc = "scroll") =>
            IF playerY < Px(300)
            THEN /\ playerY' = Px(300)
                 /\ playerX' = playerX
                 /\ DOMAIN platforms' = DOMAIN platforms
                 /\ \A i \in DOMAIN platforms :
                       /\ platforms'[i].y = platforms[i].y + (Px(300) - playerY)
                       /\ platforms'[i].x = platforms[i].x
                 /\ pc' = "platforms"
            ELSE UNCHANGED << playerX, playerY, platforms >>
      ]_vars

\* C3 witness: the scroll step has just shifted ten platforms
C3_Witness ==
    /\ last = "scroll" /\ shift > 0 /\ playerY = Px(300)
    /\ Len(platforms) = 10

\* C4 (as claimed): every step of every frame of run() sees exactly 10 platforms.
C4_TenPlatforms ==
    (pc \in {"poll", "input", "update", "fall", "scroll", "platforms", "collide", "draw"})
        => Len(platforms) = 10

\* C5: updatePlatforms raises the score by exactly the number k of platforms
\* that are below 700 after their motion (0 <= k <= 10); no other step raises
\* it; it never decreases except to 0 in resetGame.
C5_ScorePerRecycle ==
    [][ /\ (pc = "platforms") =>
              /\ score' = score + Cardinality(Leaving)
              /\ Cardinality(Leaving) <= 10
        /\ (pc # "platforms") => (score' = score \/ (last' = "reset" /\ score' = 0))
        /\ (score' < score) => (last' = "reset" /\ score' = 0)
      ]_vars

\* C5 witness: the first frame of a session has just recycled two platforms
C5_Witness == last = "platforms" /\ dy0 = 0 /\ score = 2 /\ ~gameOver

\* C6 (as claimed): a recycled platform is placed at y = 0 with x in [0, 432],
\* and after updatePlatforms every platform has y <= 700.
C6_RecycleInsideWindow ==
    [][ (pc = "platforms") =>
            /\ \A i \in Leaving :
                  /\ platforms'[i].y = 0
                  /\ platforms'[i].x >= 0 /\ platforms'[i].x <= Px(432)
            /\ \A i \in DOMAIN platforms' : platforms'[i].y <= Px(700)
      ]_vars

\* C6 (amended): a recycled platform is placed at y = 0 with x a whole number
\* of pixels in [0, 499], so it may reach past the right edge of the window;
\* after updatePlatforms every platform has y <= 700.
C6_RecycleRange ==
    [][ (pc = "platforms") =>
            /\ \A i \in Leaving :
                  /\ platforms'[i].y = 0
                  /\ platforms'[i].x >= 0 /\ platforms'[i].x <= Px(499)
                  /\ platforms'[i].x % Scale = 0
            /\ \A i \in DOMAIN platforms' : platforms'[i].y <= Px(700)
      ]_vars

\* C6 witness: updatePlatforms has just recycled a platform to the right of 432
C6_Witness ==
    /\ last = "platforms" /\ score > 0
    /\ \E i \in DOMAIN platforms : platforms[i].y = 0 /\ platforms[i].x > Px(432)

\* C7: right after resetGame, from any GameOver state, the player is at
\* (200, 200) with velocity 0, the score is 0, the flag is false and there are
\* exactly 10 platforms, each with x in [0, 499] and y in [0, 699].
C7_ResetRestoresStart ==
    [][ (gameOver /\ last' = "reset") =>
            /\ playerX' = Px(200) /\ playerY' = Px(200)
            /\ dy' = 0
            /\ score' = 0
            /\ ~gameOver'
            /\ Len(platforms') = 10
            /\ \A i \in 1..10 :
                  /\ platforms'[i].x >= 0 /\ platforms'[i].x <= Px(499)
                  /\ platforms'[i].y >= 0 /\ platforms'[i].y <= Px(699)
      ]_vars

\* C7 witness: resetGame has just returned
C7_Witness == last = "reset" /\ ~gameOver /\ score = 0 /\ playerY = Px(200)

\* C8: player.update adds 0.2 to the velocity and then the new velocity to y,
\* before the fall-out and scroll checks; at the end of a Playing frame the
\* velocity is the frame's starting velocity plus 0.2, or -8.0 if a collision
\* triggered in the frame; nothing bounds it from above.
C8_GravityStep ==
    [][ /\ (pc = "update") =>
              /\ dy' = dy + 1
              /\ playerY' = playerY + dy + 1
              /\ pc' = "fall"
              /\ dy = dy0
        /\ (pc = "collide") =>
              /\ pc' = "draw"
              /\ dy' = IF jumps' > 0 THEN -40 ELSE dy0 + 1
        /\ (pc \in {"fall", "scroll", "platforms"}) => (dy' = dy)
      ]_vars

\* C8 witness: a frame without a collision has ended with the player falling
\* faster than the jump velocity
C8_Witness == last = "collide" /\ jumps = 0 /\ dy = dy0 + 1 /\ dy > 40

\* C9: handleCollisions, on the positions left by the scroll and the platform
\* update: with velocity > 0 and some platform passing the geometric test the
\* velocity becomes -8.0; with velocity <= 0, or no platform passing it, jump()
\* is not called and the velocity is kept.
C9_CollisionTrigger ==
    [][ (pc = "collide") =>
            /\ last = "platforms"
            /\ (dy > 0 /\ Overlapping # {}) => (dy' = -40 /\ jumps' >= 1)
            /\ (dy <= 0 \/ Overlapping = {}) => (dy' = dy /\ jumps' = 0)
            /\ UNCHANGED << playerX, playerY, platforms, score >>
      ]_vars

\* C9 witness: a rising player has just passed a platform's hit window untouched
C9_Witness == last = "collide" /\ Overlapping # {} /\ dy < 0 /\ dy # -40 /\ jumps = 0

\* C10 (as claimed): with velocity > 0 and k >= 2 platforms passing the
\* geometric test, jump() is called once for each of the k platforms.
C10_AllHitsProcessed ==
    [][ (pc = "collide" /\ dy > 0 /\ Cardinality(Overlapping) >= 2) =>
            jumps' = Cardinality(Overlapping) ]_vars

\* C10 (amended): with velocity > 0 and k >= 1 platforms passing the geometric
\* test, jump() is called (and the sound played) exactly once, for the first of
\* them in vector order; the others are tested with velocity -8.0 and do not
\* trigger.
C10_FirstHitOnly ==
    [][ (pc = "collide" /\ dy > 0 /\ Overlapping # {}) =>
            (jumps' = 1 /\ dy' = -40) ]_vars

\* C10 witness: one jump() in a frame where two platforms pass the geometric test
C10_Witness == last = "collide" /\ jumps = 1 /\ dy = -40 /\ Cardinality(Overlapping) >= 2

\* C11: whenever handleCollisions calls jump() at least once, the velocity
\* after it is exactly -8.0, whatever the velocity before and however many
\* platforms overlap; jump() applied twice gives what jump() applied once gives.
C11_JumpIdempotent ==
    [][ (pc = "collide") =>
            /\ (jumps' >= 1) => (dy' = -40)
            /\ Jump(dy) = -40
            /\ Jump(Jump(dy)) = Jump(dy)
      ]_vars

\* C11 witness: a bounce has just replaced a falling velocity of 2.2 or more
C11_Witness == last = "collide" /\ jumps >= 1 /\ dy = -40 /\ dy0 >= 10

\* C12 (as claimed): a frame that begins in GameOver with the R key held
\* leaves its event loop with the game reset, whether or not an event was
\* queued; and a held R key never resets a game that is not over.
C12_RetrySampledEachFrame ==
    [][ /\ (pc = "poll" /\ pc' # "poll" /\ keyR) => ~gameOver'
        /\ (~gameOver /\ keyR) => (last' # "reset")
      ]_vars

\* C13 (as claimed): the session that enters run() has the player at the spawn
\* point with velocity 0, score 0, the flag false and 10 platforms in the
\* window, whether the font and the sound loaded or not.
C13_SameStartWithoutAssets ==
    (last = "construct") =>
        /\ playerX = Px(200) /\ playerY = Px(200) /\ dy = 0
        /\ score = 0 /\ ~gameOver
        /\ Len(platforms) = 10
        /\ \A i \in DOMAIN platforms :
              /\ platforms[i].x >= 0 /\ platforms[i].x <= Px(499)
              /\ platforms[i].y >= 0 /\ platforms[i].y <= Px(699)

C15_DrawnPlayerInBand ==
    (pc = "draw" /\ ~gameOver) => (playerY >= Px(300) /\ playerY <= Px(700))

\* C15 witness: the first frame of a session is about to be drawn, the spawn y
\* of 200.2 clamped to 300 by the scroll step
C15_Witness ==
    /\ pc = "draw" /\ ~gameOver /\ last = "collide"
    /\ playerY = Px(300) /\ dy0 = 0 /\ shift = Px(100) - 1

\* C16: the vertical velocity is never below -8.0; a step leaves it unchanged,
\* adds 0.2 to it (player.update), sets it to -8.0 (handleCollisions) or to 0
\* (resetGame); no step but resetGame moves the player up by more than 8.
C16_VelocityFloor ==
    [][ /\ dy >= -40 /\ dy' >= -40
        /\ \/ dy' = dy
           \/ pc = "update" /\ dy' = dy + 1
           \/ pc = "collide" /\ dy' = -40 /\ jumps' >= 1
           \/ last' = "reset" /\ dy' = 0
        /\ (last' # "reset") => (playerY' >= playerY - 40)
      ]_vars

\* C16 witness: the frame after a bounce, the player has just risen by 7.8
C16_Witness == last = "update" /\ dy = -39 /\ dy0 = -40

\* C17: while the frame loop keeps running, from every state in which the game
\* is not over the run reaches a state in which the flag is true or
\* handleCollisions has triggered a jump, whatever keys are held and wherever
\* the platforms are.
C17_FallEndsSession ==
    (~gameOver /\ jumps = 0) ~> (gameOver \/ jumps > 0)

\* C17 witness: the flag has just been set in a session whose last
\* handleCollisions triggered nothing, with the player to the left of the spawn
C17_Witness ==
    /\ last = "fall" /\ gameOver /\ jumps = 0
    /\ playerX < Px(200) /\ Len(platforms) = 10

=============================================================================
